---- MODULE Spec2Model ----
(***************************************************************************)
(* Model of the AI_Summariser pipeline: the read-only post store           *)
(* (DatabaseManager), the completion client (FreeGPTClient) and the        *)
(* orchestration (TelegramSummariser).                                     *)
(*                                                                         *)
(* Strings of the source are Cyrillic; the model writes each fixed         *)
(* message as an ASCII rendering of the same literal.  A text is a         *)
(* sequence of whitespace-separated tokens; a token is a record            *)
(* [base, upper, punct]: the letters, whether it is capitalised, and       *)
(* whether it carries a trailing punctuation character.                    *)
(***************************************************************************)
EXTENDS Integers, Sequences, FiniteSets, TLC

NoneVal == "None"

\* ------------------------------------------------------------------ bounds
\* posts beyond the digest limit that the largest folder holds
ExtraPosts == 2
\* posts of the orphan channel (a channel whose folder row is missing)
OrphanPosts == 1

\* ------------------------------------------------------- program constants
DigestLimit == 20
ContextLimit == 20
TopicLimit == 7
SimpleTopicLimit == 5
RelatedLimit == 5
PreviewLen == 200
MinWordLen == 3
\* confidence values in tenths: 0.8 and 0.0
ConfidenceOk == 8
ConfidenceNone == 0

\* ------------------------------------------------------------ time (ticks)
DayLen == 100
Now == 2000
Day(d) == d \div DayLen

\* -------------------------------------------------------------- vocabulary
BaseLen ==
  [ market |-> 6, news |-> 4, btc |-> 3, dazhe |-> 5, takzhe |-> 5,
    i |-> 1, rates |-> 5, longurl |-> 250, crypto |-> 6, token |-> 5 ]

BaseWords == DOMAIN BaseLen

Tok(b, u, p) == [base |-> b, upper |-> u, punct |-> p]

\* str.lower() of one token
Lower(t) == [t EXCEPT !.upper = FALSE]

\* str.strip('.,!?;:()[]{}"\'-') of one token
Strip(t) == [t EXCEPT !.punct = FALSE]

\* len() of one token
TokLen(t) == BaseLen[t.base] + (IF t.punct THEN 1 ELSE 0)

RECURSIVE TextLen(_)
\* len() of a text: the tokens and the single spaces between them
TextLen(text) ==
  IF text = <<>> THEN 0
  ELSE TokLen(Head(text)) + (IF Len(text) > 1 THEN 1 ELSE 0) + TextLen(Tail(text))

\* Optional values.  An Optional[str] column is a string with NoneVal for
\* NULL; an Optional[int] argument and a fetchone() row are sequences of
\* length 0 (None) or 1; an Optional text is a record [null, toks].
None_ == <<>>
Some(v) == <<v>>
NullText == [null |-> TRUE, toks |-> <<>>]
Text(toks) == [null |-> FALSE, toks |-> toks]

\* Python truthiness of an Optional[str]
Truthy(v) == v # NoneVal /\ v # ""

\* Python truthiness of an Optional[int]
TruthyInt(m) == m # None_ /\ m[1] # 0

\* Python truthiness of an Optional text
TruthyText(t) == ~t.null /\ t.toks # <<>>

\* the stop words of _extract_simple_topics (transliterated, lower case)
common_words ==
  { "i", "v", "na", "s", "po", "dlya", "ot", "do", "iz", "za", "pod", "nad",
    "pri", "pro", "o", "ob", "a", "no", "ili", "chto", "kak", "gde", "kogda",
    "pochemu", "eto", "to", "tak", "vse", "esche", "uzhe", "tolko", "dazhe",
    "tozhe", "takzhe" }

\* ---------------------------------------------------------------- the store
\* texts the generated posts cycle through
Texts ==
  << Text(<< Tok("market", TRUE, FALSE), Tok("news", FALSE, TRUE), Tok("market", FALSE, TRUE) >>),
     Text(<< Tok("btc", TRUE, FALSE), Tok("rates", FALSE, FALSE), Tok("i", FALSE, FALSE),
             Tok("news", FALSE, FALSE) >>),
     Text(<< Tok("dazhe", TRUE, FALSE), Tok("rates", FALSE, TRUE), Tok("longurl", FALSE, FALSE) >>),
     Text(<<>>),
     Text(<< Tok("takzhe", FALSE, FALSE), Tok("rates", TRUE, FALSE),
             Tok("crypto", FALSE, TRUE), Tok("token", FALSE, FALSE) >>) >>

\* stored links the generated posts cycle through
Links == << NoneVal, "https://example.org/p", "" >>

Cycle(seq, k) == seq[((k - 1) % Len(seq)) + 1]

\* channels: 1 and 2 in folder 1, 3 in folder 2, 4 in the missing folder 3
Channels ==
  { [id |-> 1, folder_id |-> 1, username |-> "chan_a", title |-> "Channel A"],
    [id |-> 2, folder_id |-> 1, username |-> NoneVal,  title |-> NoneVal],
    [id |-> 3, folder_id |-> 2, username |-> "",       title |-> "Channel C"],
    [id |-> 4, folder_id |-> 3, username |-> "chan_d", title |-> "Channel D"] }

\* collation of the titles above (NULL sorts first in ORDER BY title)
TitleRank(title) ==
  CASE title = NoneVal -> 0
    [] title = "Channel A" -> 1
    [] title = "Channel C" -> 2
    [] OTHER -> 3

Folders ==
  { [id |-> 1, name |-> "Folder one"], [id |-> 2, name |-> "Folder two"] }

\* folder identifiers the callers pass: 1 and 2 exist, 3 has no folder row
FolderIds == {1, 2, 3}

\* the post whose text column is NULL
NullTextPost == 3

\* the k-th post of folder 1; spread = TRUE puts the posts on several days,
\* the newest more than a day old
MkPost(k, spread) ==
  [ id |-> k,
    channel_id |-> IF k % 2 = 1 THEN 1 ELSE 2,
    tg_post_id |-> 1000 + k,
    date |-> IF spread THEN Now - DayLen - 40 * k ELSE Now - k,
    text |-> IF k = NullTextPost THEN NullText ELSE Cycle(Texts, k),
    link |-> Cycle(Links, k) ]

\* the k-th post of the orphan channel
MkOrphanPost(k) ==
  [ id |-> 500 + k, channel_id |-> 4, tg_post_id |-> 5000 + k,
    date |-> Now - 10 * k, text |-> Cycle(Texts, k), link |-> NoneVal ]

\* the post of folder 2: a stop word, a one-letter word and a short word
StopWordPost ==
  [ id |-> 900, channel_id |-> 3, tg_post_id |-> 9000, date |-> Now - 5,
    text |-> Text(<< Tok("dazhe", TRUE, FALSE), Tok("i", FALSE, FALSE),
                     Tok("btc", FALSE, TRUE) >>),
    link |-> NoneVal ]

PostCounts == {0, 1, 2, 3, DigestLimit, DigestLimit + ExtraPosts}

MkStore(n, spread, orphan) ==
  [ folders  |-> Folders,
    channels |-> IF orphan THEN Channels ELSE {c \in Channels : c.id # 4},
    posts    |-> {MkPost(k, spread) : k \in 1..n}
                 \cup (IF n >= 2 THEN {StopWordPost} ELSE {})
                 \cup (IF orphan THEN {MkOrphanPost(k) : k \in 1..OrphanPosts} ELSE {}) ]

Stores ==
  { MkStore(n, spread, orphan) :
      n \in PostCounts, spread \in BOOLEAN, orphan \in BOOLEAN }

\* ------------------------------------------------------------- store reads
Min(a, b) == IF a < b THEN a ELSE b

Take(seq, n) == SubSeq(seq, 1, Min(n, Len(seq)))

RECURSIVE OrderByDateDesc(_)
\* ORDER BY p.date DESC
OrderByDateDesc(S) ==
  IF S = {} THEN <<>>
  ELSE LET m == CHOOSE p \in S : \A q \in S : q.date <= p.date
       IN  <<m>> \o OrderByDateDesc(S \ {m})

RECURSIVE OrderByTitle(_)
\* ORDER BY title
OrderByTitle(S) ==
  IF S = {} THEN <<>>
  ELSE LET m == CHOOSE c \in S : \A q \in S : TitleRank(c.title) <= TitleRank(q.title)
       IN  <<m>> \o OrderByTitle(S \ {m})

\* LIMIT n of SQLite: a negative n means no limit
SqlLimit(rows, n) == IF n < 0 THEN rows ELSE Take(rows, n)

\* posts p JOIN channels c ON p.channel_id = c.id WHERE c.folder_id = ?
JoinFolder(store, folder_id) ==
  { p \in store.posts :
      \E c \in store.channels : c.id = p.channel_id /\ c.folder_id = folder_id }

\* p.text LIKE '%term%' for a one-token term ("" is the empty term)
LikeMatch(text, term) ==
  /\ ~text.null
  /\ \/ term = <<>>
     \/ \E i \in 1..Len(text.toks) :
          /\ text.toks[i].base = term[1].base
          /\ text.toks[i].upper = term[1].upper
          /\ term[1].punct => text.toks[i].punct

\* a lookup without its WHERE clause
get_folder_any(store, folder_id) ==
  IF store.folders # {} THEN Some(CHOOSE f \in store.folders : TRUE) ELSE None_

get_folder(store, folder_id) ==
  IF \E f \in store.folders : f.id = folder_id
  THEN Some(CHOOSE f \in store.folders : f.id = folder_id)
  ELSE None_

get_channels_in_folder(store, folder_id) ==
  OrderByTitle({c \in store.channels : c.folder_id = folder_id})

get_posts_by_folder(store, folder_id, limit, days_back) ==
  LET joined   == JoinFolder(store, folder_id)
      filtered == IF TruthyInt(days_back)
                  THEN {p \in joined : p.date >= Now - days_back[1] * DayLen}
                  ELSE joined
      ordered  == OrderByDateDesc(filtered)
  IN  IF TruthyInt(limit) THEN SqlLimit(ordered, limit[1]) ELSE ordered

search_posts(store, folder_id, search_term, limit) ==
  SqlLimit(OrderByDateDesc({p \in JoinFolder(store, folder_id) :
                              LikeMatch(p.text, search_term)}),
           limit)

\* ------------------------------------------------------- pipeline helpers
\* datetime.strftime('%d.%m.%Y'): the calendar day only
DateStr(d) == "day" \o ToString(Day(d))

RECURSIVE MinDate(_)
MinDate(posts) ==
  IF Len(posts) = 1 THEN posts[1].date
  ELSE Min(posts[1].date, MinDate(Tail(posts)))

RECURSIVE MaxDate(_)
MaxDate(posts) ==
  IF Len(posts) = 1 THEN posts[1].date
  ELSE LET m == MaxDate(Tail(posts)) IN IF posts[1].date > m THEN posts[1].date ELSE m

\* helpers.format_date_range (not called by the pipeline)
format_date_range(start_date, end_date) ==
  IF Day(start_date) = Day(end_date)
  THEN DateStr(start_date)
  ELSE DateStr(start_date) \o " - " \o DateStr(end_date)

\* a date range taken over the digested posts only
DateRange_of_digested(posts) ==
  DateStr(MinDate(Take(posts, DigestLimit))) \o " - " \o DateStr(MaxDate(Take(posts, DigestLimit)))

\* the date_range expression of summarise_folder and search_and_summarise
DateRange(posts) == DateStr(MinDate(posts)) \o " - " \o DateStr(MaxDate(posts))

\* channel_map.get(post.channel_id): a sequence of length 0 or 1
ChannelOf(channels, post) ==
  SelectSeq(channels, LAMBDA c : c.id = post.channel_id)

\* a link built from the row id instead of the Telegram post id
PostLink_row_id(post, channel) ==
  IF Truthy(post.link) THEN post.link
  ELSE IF channel # None_ /\ Truthy(channel[1].username)
       THEN "https://t.me/" \o channel[1].username \o "/" \o ToString(post.id)
       ELSE NoneVal

\* the post_link of a digest
PostLink(post, channel) ==
  IF Truthy(post.link) THEN post.link
  ELSE IF channel # None_ /\ Truthy(channel[1].username)
       THEN "https://t.me/" \o channel[1].username \o "/" \o ToString(post.tg_post_id)
       ELSE NoneVal

\* the text preview used by digests and by the prompt context
Preview(text) ==
  IF TruthyText(text) /\ TextLen(text.toks) > PreviewLen
  THEN [kind |-> "cut", toks |-> text.toks]
  ELSE IF TruthyText(text) THEN [kind |-> "full", toks |-> text.toks]
       ELSE [kind |-> "placeholder", toks |-> <<>>]

PostSummary(post, channels) ==
  LET channel == ChannelOf(channels, post)
      channel_title == IF channel # None_ THEN channel[1].title ELSE "Unknown channel"
  IN  [ post_id |-> post.id,
        channel_title |-> IF Truthy(channel_title) THEN channel_title ELSE "",
        date |-> post.date,
        summary |-> Preview(post.text),
        link |-> PostLink(post, channel) ]

Digests(posts, channels) == [k \in 1..Len(posts) |-> PostSummary(posts[k], channels)]

RECURSIVE Flatten(_)
Flatten(seqs) == IF seqs = <<>> THEN <<>> ELSE Head(seqs) \o Flatten(Tail(seqs))

\* the words _extract_simple_topics counts, in order of occurrence
CountedWords(posts) ==
  LET wordsOf(post) ==
        IF TruthyText(post.text)
        THEN LET stripped == [k \in 1..Len(post.text.toks) |-> Strip(Lower(post.text.toks[k]))]
                 kept == SelectSeq(stripped,
                           LAMBDA w : TokLen(w) > MinWordLen /\ w.base \notin common_words)
             IN  [k \in 1..Len(kept) |-> kept[k].base]
        ELSE <<>>
  IN  Flatten([k \in 1..Len(posts) |-> wordsOf(posts[k])])

Count(words, w) == Cardinality({k \in 1..Len(words) : words[k] = w})

RECURSIVE Dedup(_)
\* dict insertion order: the first occurrence of each word
Dedup(words) ==
  IF words = <<>> THEN <<>>
  ELSE LET rest == Dedup(SubSeq(words, 1, Len(words) - 1))
           last == words[Len(words)]
       IN  IF \E k \in 1..Len(rest) : rest[k] = last THEN rest ELSE Append(rest, last)

RECURSIVE StableSortDesc(_, _)
\* sorted(word_count.items(), key=count, reverse=True): stable, larger count first
StableSortDesc(keys, words) ==
  IF keys = <<>> THEN <<>>
  ELSE LET k == CHOOSE i \in 1..Len(keys) :
                  /\ \A j \in 1..Len(keys) : Count(words, keys[j]) <= Count(words, keys[i])
                  /\ \A j \in 1..(i - 1) : Count(words, keys[j]) < Count(words, keys[i])
       IN  <<keys[k]>> \o
           StableSortDesc(SubSeq(keys, 1, k - 1) \o SubSeq(keys, k + 1, Len(keys)), words)

\* a heuristic that leaves the words in order of first occurrence
extract_simple_topics_unsorted(posts) ==
  Take(Dedup(CountedWords(posts)), SimpleTopicLimit)

extract_simple_topics(posts) ==
  LET words == CountedWords(posts)
  IN  Take(StableSortDesc(Dedup(words), words), SimpleTopicLimit)

\* set(text.lower().split())
LowerWords(toks) == {Lower(toks[k]) : k \in 1..Len(toks)}

\* a search for related posts among the posts sent to the model only
find_related_posts_among_sent(posts, question) ==
  LET related == SelectSeq(Take(posts, DigestLimit),
                   LAMBDA p : /\ TruthyText(p.text)
                              /\ LowerWords(question) \cap LowerWords(p.text.toks) # {})
  IN  Take([k \in 1..Len(related) |-> related[k].id], RelatedLimit)

find_related_posts(posts, question) ==
  LET related == SelectSeq(posts,
                   LAMBDA p : /\ TruthyText(p.text)
                              /\ LowerWords(question) \cap LowerWords(p.text.toks) # {})
  IN  Take([k \in 1..Len(related) |-> related[k].id], RelatedLimit)

\* -------------------------------------------------------- completion client
\* replies the remote model can give (after the final strip())
Replies ==
  { "", "AI digest", "topics [t1, t2]", "long array of topics",
    "broken [ list ]", "no brackets list", "long prose" }

ReplyLen(r) ==
  CASE r = "" -> 0
    [] r = "long prose" -> 1600
    [] r = "long array of topics" -> 120
    [] OTHER -> 40

\* "array": the text from the first '[' to the last ']' parses as a JSON array;
\* "broken": both brackets occur but json.loads fails; "none": a bracket is missing
ReplyBracket(r) ==
  CASE r = "topics [t1, t2]" -> "array"
    [] r = "long array of topics" -> "array"
    [] r = "broken [ list ]" -> "broken"
    [] OTHER -> "none"

ReplyArray(r) ==
  CASE r = "topics [t1, t2]" -> << "t1", "t2" >>
    [] r = "long array of topics" -> [k \in 1..(TopicLimit + 2) |-> "t" \o ToString(k)]
    [] OTHER -> <<>>

Line(blank, marker, clean, clean_len) ==
  [blank |-> blank, marker |-> marker, clean |-> clean, clean_len |-> clean_len]

\* the lines of a reply: blank after strip(), starting with a boilerplate
\* marker, and the line after lstrip('0123456789.-* ') with its length
ReplyLines(r) ==
  CASE r = "" -> <<>>
    [] r \in {"broken [ list ]", "no brackets list"} ->
         << Line(FALSE, TRUE, "Answer: topics", 14), Line(TRUE, FALSE, "", 0),
            Line(FALSE, FALSE, "abc", 3), Line(FALSE, FALSE, "very long line", 100) >>
         \o [k \in 1..(TopicLimit + 1) |-> Line(FALSE, FALSE, "topic " \o ToString(k), 7)]
    [] OTHER -> << Line(FALSE, FALSE, r, ReplyLen(r)) >>

\* what _make_stream_request does: raise err, or return reply
StreamOutcomes ==
  { [ok |-> FALSE, reply |-> "", err |-> "ConnectError"] }
  \cup { [ok |-> TRUE, reply |-> r, err |-> ""] : r \in Replies }

DefaultStream == [ok |-> TRUE, reply |-> "AI digest", err |-> ""]

\* the outcomes tried for a request whose reply is only cut to a length
TextOutcomes == {o \in StreamOutcomes : o.reply \in {"", "AI digest", "long prose"}}

\* what the GET of health_check does
ProbeOutcomes == {"ok", "create_raises", "send_raises", "status_raises"}

\* response[:max_length]
Cut(r, max_length) ==
  IF ReplyLen(r) <= max_length THEN r ELSE r \o "[:" \o ToString(max_length) \o "]"

\* a context built from every post given
prepare_posts_context_uncapped(posts) ==
  [k \in 1..Len(posts) |->
     [index |-> k, post_id |-> posts[k].id, date |-> posts[k].date,
      preview |-> Preview(posts[k].text)]]

\* _prepare_posts_context: the numbered previews of the first posts
prepare_posts_context(posts) ==
  [k \in 1..Min(Len(posts), ContextLimit) |->
     [index |-> k, post_id |-> posts[k].id, date |-> posts[k].date,
      preview |-> Preview(posts[k].text)]]

\* a probe that does not look at the outcome of the GET
health_check_always_true(http0, probe) ==
  [ value |-> TRUE,
    http  |-> http0 \/ probe # "create_raises",
    sent  |-> probe # "create_raises" ]

\* a probe that does not call raise_for_status()
health_check_no_status_check(http0, probe) ==
  [ value |-> probe \in {"ok", "status_raises"},
    http  |-> http0 \/ probe # "create_raises",
    sent  |-> probe # "create_raises" ]

\* health_check: value is the boolean returned, http the state of _client
\* afterwards, sent whether the GET was issued
health_check(http0, probe) ==
  [ value |-> probe = "ok",
    http  |-> http0 \/ probe # "create_raises",
    sent  |-> probe # "create_raises" ]

SummaryMaxLength == 1000
AnswerMaxLength == 1500

\* a generate_summary that does not cut the reply
generate_summary_uncut(posts, out) ==
  IF posts = <<>> THEN "No posts to analyse."
  ELSE IF ~out.ok THEN "Error generating summary: " \o out.err
  ELSE IF out.reply # "" THEN out.reply
  ELSE "Error generating summary."

generate_summary(posts, out) ==
  IF posts = <<>> THEN "No posts to analyse."
  ELSE IF ~out.ok THEN "Error generating summary: " \o out.err
  ELSE IF out.reply # "" THEN Cut(out.reply, SummaryMaxLength)
  ELSE "Error generating summary."

answer_question(posts, question, out) ==
  IF posts = <<>> THEN "No posts to analyse."
  ELSE IF ~out.ok THEN "Error generating answer: " \o out.err
  ELSE IF out.reply # "" THEN Cut(out.reply, AnswerMaxLength)
  ELSE "Error generating answer."

extract_topics_from_text(r) ==
  LET kept == SelectSeq(ReplyLines(r),
                LAMBDA l : /\ ~l.blank /\ ~l.marker
                           /\ l.clean_len > 3 /\ l.clean_len < 100)
  IN  Take([k \in 1..Len(kept) |-> kept[k].clean], TopicLimit)

extract_topics(posts, out) ==
  IF posts = <<>> THEN <<>>
  ELSE IF ~out.ok THEN <<>>
  ELSE IF out.reply = "" THEN <<>>
  ELSE IF ReplyBracket(out.reply) = "array" THEN Take(ReplyArray(out.reply), TopicLimit)
  ELSE IF ReplyBracket(out.reply) = "broken" THEN extract_topics_from_text(out.reply)
  ELSE <<>>

\* ------------------------------------------------------------ result values
NoResult == [kind |-> "NoResult"]
NoneResult == [kind |-> "None"]

Summary(folder_name, total_posts, date_range, main_topics, posts, overall_summary) ==
  [ kind |-> "Summary", folder_name |-> folder_name, total_posts |-> total_posts,
    date_range |-> date_range, main_topics |-> main_topics, posts |-> posts,
    overall_summary |-> overall_summary ]

AIResponse(question, answer, related_posts, confidence) ==
  [ kind |-> "AIResponse", question |-> question, answer |-> answer,
    related_posts |-> related_posts, confidence |-> confidence ]

\* str() of a one-token search term or question word
TokStr(t) == (IF t.upper THEN "^" ELSE "") \o t.base \o (IF t.punct THEN "," ELSE "")
TermStr(term) == IF term = <<>> THEN "" ELSE TokStr(term[1])

\* fixed messages of the pipeline
MsgNoData == "No data"
MsgNoPostsInPeriod == "Posts not found in the given period."
MsgServiceUnavailable == "AI service unavailable. Only short post descriptions are shown."
MsgAskNoPosts == "Posts not found in the given period for analysis."
MsgAskUnavailable == "AI service unavailable. Try again later."
MsgNoResults == "No results"
\* the two counts taken for one another
MsgAnalysed_swapped(n, m) ==
  "Analysed " \o ToString(m) \o " posts from " \o ToString(n) \o " channels."

MsgAnalysed(n, m) ==
  "Analysed " \o ToString(n) \o " posts from " \o ToString(m) \o " channels."
\* a narrative that leaves the search term out
MsgNothingFound_no_term(term) == "For the query nothing was found."

MsgNothingFound(term) == "For query '" \o TermStr(term) \o "' nothing was found."
MsgFound(n, term) ==
  "Found " \o ToString(n) \o " posts for query '" \o TermStr(term) \o "'."

\* ------------------------------------------------- environment of one call
NoFault == [at |-> "none", kind |-> "none", err |-> ""]
RaiseAt(at) == [at |-> at, kind |-> "raise", err |-> "OperationalError"]
CancelAt(at) == [at |-> at, kind |-> "cancel", err |-> "CancelledError"]

\* the environments of one operation: a fault (a store read that raises, an
\* await at which the task is cancelled), the outcome of the probe and the
\* outcomes of the completion requests
Envs(storePoints, clientPoints, firsts, seconds, http0) ==
  { [fault |-> f, probe |-> "ok", first |-> DefaultStream, second |-> DefaultStream] :
      f \in {RaiseAt(at) : at \in storePoints}
            \cup {CancelAt(at) : at \in storePoints \cup clientPoints} }
  \cup
  { [fault |-> NoFault, probe |-> p, first |-> DefaultStream, second |-> DefaultStream] :
      p \in {q \in ProbeOutcomes : q # "ok" /\ (q = "create_raises" => ~http0)} }
  \cup
  { [fault |-> NoFault, probe |-> "ok", first |-> o1, second |-> o2] :
      o1 \in firsts, o2 \in seconds }

Call(name, ctx) == [call |-> name, ctx |-> ctx]

Ids(posts) == [k \in 1..Len(posts) |-> posts[k].id]

ContextIds(posts) ==
  LET ctx == prepare_posts_context(posts) IN [k \in 1..Len(ctx) |-> ctx[k].post_id]

Returned(value, calls, http1) ==
  [status |-> "returned", value |-> value, calls |-> calls, http |-> http1]

Cancelled(calls, http1) ==
  [status |-> "cancelled", value |-> NoResult, calls |-> calls, http |-> http1]

Raised(calls, http1) ==
  [status |-> "raised", value |-> NoResult, calls |-> calls, http |-> http1]

\* --------------------------------------------------------- _make_request
\* largest max_retries a client is constructed with
MaxRetriesBound == 3
\* the default of the constructor
DefaultMaxRetries == 3

\* what one attempt does: the reply parses, raise_for_status() raises
\* HTTPStatusError, the transport raises a RequestError, or response.json()
\* raises (neither of the two)
AttemptOutcomes == {"ok", "HTTPStatusError", "RequestError", "JSONDecodeError"}

\* the failures the two handlers of _make_request catch
Transient == {"HTTPStatusError", "RequestError"}

Methods == {"POST", "post", "GET"}

\* method.upper() == "POST" chooses client.post, anything else client.get
SendCall(method) == IF method \in {"POST", "post"} THEN "client.post" ELSE "client.get"

\* a cancellation of the task while it is suspended in attempt k
NoCancel == [at |-> "none", kind |-> "none", err |-> "", attempt |-> 0]
CancelIn(at, k) == [at |-> at, kind |-> "cancel", err |-> "CancelledError", attempt |-> k]

RequestError(err, k) == [kind |-> "Error", err |-> err, attempt |-> k]
Json(k) == [kind |-> "Json", attempt |-> k]

\* a delay to the base ten
Backoff_base_ten(retry_count) == 10 ^ retry_count

\* a delay that grows linearly
Backoff_linear(retry_count) == 2 * retry_count

\* the argument of asyncio.sleep: 2 ** retry_count
Backoff(retry_count) == 2 ^ retry_count

RECURSIVE make_request(_, _, _, _, _, _)
\* _make_request: outcomes[k + 1] is what attempt k does; the recursive call
\* sits in the handler, so what it raises passes the sibling handler
make_request(method, outcomes, retry_count, max_retries, cancel, calls) ==
  LET sent  == Append(calls, Call(SendCall(method), << retry_count >>))
      slept == Append(sent, Call("asyncio.sleep", << Backoff(retry_count) >>))
      o     == outcomes[retry_count + 1]
      here(at) == cancel.kind = "cancel" /\ cancel.at = at /\ cancel.attempt = retry_count
  IN  IF here("send") THEN Cancelled(sent, TRUE)
      ELSE IF o = "ok" THEN Returned(Json(retry_count), sent, TRUE)
      ELSE IF o \in Transient /\ retry_count < max_retries
      THEN IF here("sleep") THEN Cancelled(slept, TRUE)
           ELSE make_request(method, outcomes, retry_count + 1, max_retries, cancel, slept)
      ELSE [status |-> "raised", value |-> RequestError(o, retry_count),
            calls |-> sent, http |-> TRUE]

\* ---------------------------------------------------- _make_stream_request
\* what the POST of _make_stream_request does when the client is used
\* directly: the outcomes above and a failure with an HTTP status
DirectStreamOutcomes ==
  StreamOutcomes \cup { [ok |-> FALSE, reply |-> "", err |-> "HTTPStatusError"] }

Reply(r) == [kind |-> "Reply", reply |-> r]

\* _make_stream_request: one POST; the handler logs and re-raises, and
\* max_retries is not read
make_stream_request(out, cancel, calls) ==
  LET sent == Append(calls, Call("client.post", << 0 >>))
  IN  IF cancel.kind = "cancel" /\ cancel.at = "send" THEN Cancelled(sent, TRUE)
      ELSE IF out.ok THEN Returned(Reply(out.reply), sent, TRUE)
      ELSE [status |-> "raised", value |-> RequestError(out.err, 0),
            calls |-> sent, http |-> TRUE]

\* values the client methods return
BoolValue(b) == [kind |-> "Bool", value |-> b]
TextValue(s) == [kind |-> "Text", text |-> s]
TopicsValue(t) == [kind |-> "Topics", topics |-> t]

\* a method of the client called on its own: the guard on empty input, the
\* request, and the handler that turns every Exception into a value
client_call(name, posts, question, out, cancel, http0) ==
  LET r == make_stream_request(out, cancel, <<>>)
      value == CASE name = "generate_summary" -> TextValue(generate_summary(posts, out))
                 [] name = "answer_question" ->
                      TextValue(answer_question(posts, question, out))
                 [] OTHER -> TopicsValue(extract_topics(posts, out))
  IN  IF posts = <<>> THEN Returned(value, <<>>, http0)
      ELSE IF r.status = "cancelled" THEN r
      ELSE Returned(value, r.calls, r.http)

\* health_check called on its own
client_health_check(probe, cancel, http0) ==
  LET hc == health_check(http0, probe)
      made == IF hc.sent THEN << Call("client.get", << 0 >>) >> ELSE <<>>
  IN  IF hc.sent /\ cancel.kind = "cancel" THEN Cancelled(made, hc.http)
      ELSE Returned(BoolValue(hc.value), made, hc.http)

\* ------------------------------------------------------ TelegramSummariser
\* a handler that logs and re-raises
summarise_folder_except_reraise(e, calls, http1) == Raised(calls, http1)

\* the outermost handler of summarise_folder
summarise_folder_except(e, calls, http1) == Returned(NoneResult, calls, http1)

\* the outermost handler of ask_about_posts
ask_about_posts_except(question, e, calls, http1) ==
  Returned(AIResponse(question, "Error processing question: " \o e, <<>>, ConfidenceNone),
           calls, http1)

\* a handler of search_and_summarise that logs and re-raises
search_and_summarise_except_reraise(e, calls, http1) == Raised(calls, http1)

\* the outermost handler of search_and_summarise
search_and_summarise_except(e, calls, http1) == Returned(NoneResult, calls, http1)

\* handlers that catch BaseException
Escape_catches_cancel(fault, handled, calls, http1) == handled

\* an await that fails: a CancelledError is no Exception and passes every
\* handler, anything else reaches the outermost handler
Escape(fault, handled, calls, http1) ==
  IF fault.kind = "cancel" THEN Cancelled(calls, http1) ELSE handled

\* an AI branch that keeps the local topics when the service is alive
AiBranch_local_topics(given, posts, env, calls, http0, downSummary) ==
  LET hc == health_check(http0, env.probe)
      c1 == Append(calls, Call("health_check", <<>>))
      c2 == Append(c1, Call("extract_topics", ContextIds(given)))
      c3 == Append(c2, Call("generate_summary", ContextIds(given)))
      cancelled(cs) ==
        [ cancelled |-> TRUE, main_topics |-> <<>>, overall_summary |-> "",
          calls |-> cs, http |-> hc.http ]
      done(main_topics, overall_summary, cs) ==
        [ cancelled |-> FALSE, main_topics |-> main_topics,
          overall_summary |-> overall_summary, calls |-> cs, http |-> hc.http ]
  IN  IF env.fault = CancelAt("health_check") THEN cancelled(c1)
      ELSE IF hc.value
      THEN IF env.fault = CancelAt("extract_topics") THEN cancelled(c2)
           ELSE IF env.fault = CancelAt("generate_summary") THEN cancelled(c3)
           ELSE done(extract_simple_topics(posts), generate_summary(given, env.second), c3)
      ELSE done(extract_simple_topics(posts), downSummary, c1)

\* an AI branch that asks for the summary before the topics
AiBranch_summary_first(given, posts, env, calls, http0, downSummary) ==
  LET hc == health_check(http0, env.probe)
      c1 == Append(calls, Call("health_check", <<>>))
      c2 == Append(c1, Call("generate_summary", ContextIds(given)))
      c3 == Append(c2, Call("extract_topics", ContextIds(given)))
      cancelled(cs) ==
        [ cancelled |-> TRUE, main_topics |-> <<>>, overall_summary |-> "",
          calls |-> cs, http |-> hc.http ]
      done(main_topics, overall_summary, cs) ==
        [ cancelled |-> FALSE, main_topics |-> main_topics,
          overall_summary |-> overall_summary, calls |-> cs, http |-> hc.http ]
  IN  IF env.fault = CancelAt("health_check") THEN cancelled(c1)
      ELSE IF hc.value
      THEN IF env.fault = CancelAt("generate_summary") THEN cancelled(c2)
           ELSE IF env.fault = CancelAt("extract_topics") THEN cancelled(c3)
           ELSE done(extract_topics(given, env.first), generate_summary(given, env.second), c3)
      ELSE done(extract_simple_topics(posts), downSummary, c1)

\* the AI branch shared by summarise_folder (on posts[:20]) and
\* search_and_summarise (on all posts): probe, topics, summary.  The client
\* catches every Exception itself, so the inner handler sees none.
AiBranch(given, posts, env, calls, http0, downSummary) ==
  LET hc == health_check(http0, env.probe)
      c1 == Append(calls, Call("health_check", <<>>))
      c2 == Append(c1, Call("extract_topics", ContextIds(given)))
      c3 == Append(c2, Call("generate_summary", ContextIds(given)))
      cancelled(cs) ==
        [ cancelled |-> TRUE, main_topics |-> <<>>, overall_summary |-> "",
          calls |-> cs, http |-> hc.http ]
      done(main_topics, overall_summary, cs) ==
        [ cancelled |-> FALSE, main_topics |-> main_topics,
          overall_summary |-> overall_summary, calls |-> cs, http |-> hc.http ]
  IN  IF env.fault = CancelAt("health_check") THEN cancelled(c1)
      ELSE IF hc.value
      THEN IF env.fault = CancelAt("extract_topics") THEN cancelled(c2)
           ELSE IF env.fault = CancelAt("generate_summary") THEN cancelled(c3)
           ELSE done(extract_topics(given, env.first), generate_summary(given, env.second), c3)
      ELSE done(extract_simple_topics(posts), downSummary, c1)

\* a swap of two positional strings
EmptySummary_swapped(folder) ==
  Summary(folder.name, 0, MsgNoPostsInPeriod, <<>>, <<>>, MsgNoData)

\* the Summary returned when the fetch gives no posts
EmptySummary(folder) ==
  Summary(folder.name, 0, MsgNoData, <<>>, <<>>, MsgNoPostsInPeriod)

summarise_folder(store, http0, folder_id, limit, days_back, include_ai_summary, env) ==
  LET folder   == get_folder(store, folder_id)
      posts    == get_posts_by_folder(store, folder_id, limit, days_back)
      channels == get_channels_in_folder(store, folder_id)
      c1 == << Call("get_folder", <<>>) >>
      c2 == Append(c1, Call("get_posts_by_folder", <<>>))
      c3 == Append(c2, Call("get_channels_in_folder", <<>>))
      mk(main_topics, overall_summary) ==
        Summary(folder[1].name, Len(posts), DateRange(posts), main_topics,
                Digests(Take(posts, DigestLimit), channels), overall_summary)
  IN  IF env.fault.at = "get_folder"
      THEN Escape(env.fault, summarise_folder_except(env.fault.err, c1, http0), c1, http0)
      ELSE IF folder = None_ THEN Returned(NoneResult, c1, http0)
      ELSE IF env.fault.at = "get_posts_by_folder"
      THEN Escape(env.fault, summarise_folder_except(env.fault.err, c2, http0), c2, http0)
      ELSE IF posts = <<>>
      THEN Returned(EmptySummary(folder[1]), c2, http0)
      ELSE IF env.fault.at = "get_channels_in_folder"
      THEN Escape(env.fault, summarise_folder_except(env.fault.err, c3, http0), c3, http0)
      ELSE IF include_ai_summary
      THEN LET ai == AiBranch(Take(posts, DigestLimit), posts, env, c3, http0,
                              MsgServiceUnavailable)
           IN  IF ai.cancelled THEN Cancelled(ai.calls, ai.http)
               ELSE Returned(mk(ai.main_topics, ai.overall_summary), ai.calls, ai.http)
      ELSE Returned(mk(extract_simple_topics(posts),
                       MsgAnalysed(Len(posts), Len(channels))), c3, http0)

ask_about_posts(store, http0, folder_id, question, limit, days_back, env) ==
  LET posts == get_posts_by_folder(store, folder_id, limit, days_back)
      hc == health_check(http0, env.probe)
      c1 == << Call("get_posts_by_folder", <<>>) >>
      c2 == Append(c1, Call("health_check", <<>>))
      c3 == Append(c2, Call("answer_question", ContextIds(Take(posts, DigestLimit))))
  IN  IF env.fault.at = "get_posts_by_folder"
      THEN Escape(env.fault, ask_about_posts_except(question, env.fault.err, c1, http0),
                  c1, http0)
      ELSE IF posts = <<>>
      THEN Returned(AIResponse(question, MsgAskNoPosts, <<>>, ConfidenceNone), c1, http0)
      ELSE IF env.fault = CancelAt("health_check") THEN Cancelled(c2, hc.http)
      ELSE IF ~hc.value
      THEN Returned(AIResponse(question, MsgAskUnavailable, <<>>, ConfidenceNone),
                    c2, hc.http)
      ELSE IF env.fault = CancelAt("answer_question") THEN Cancelled(c3, hc.http)
      ELSE Returned(AIResponse(question,
                               answer_question(Take(posts, DigestLimit), question, env.first),
                               find_related_posts(posts, question), ConfidenceOk),
                    c3, hc.http)

search_and_summarise(store, http0, folder_id, search_term, limit, env) ==
  LET posts    == search_posts(store, folder_id, search_term, limit)
      folder   == get_folder(store, folder_id)
      channels == get_channels_in_folder(store, folder_id)
      folder_name == IF folder # None_ THEN folder[1].name
                     ELSE "Folder " \o ToString(folder_id)
      c1 == << Call("search_posts", <<>>) >>
      c2 == Append(c1, Call("get_folder", <<>>))
      c3 == Append(c2, Call("get_channels_in_folder", <<>>))
      mk(main_topics, overall_summary) ==
        Summary(folder_name \o " - Search: " \o TermStr(search_term), Len(posts),
                DateRange(posts), main_topics, Digests(posts, channels), overall_summary)
  IN  IF env.fault.at = "search_posts"
      THEN Escape(env.fault, search_and_summarise_except(env.fault.err, c1, http0), c1, http0)
      ELSE IF posts = <<>>
      THEN Returned(Summary("Search: " \o TermStr(search_term), 0, MsgNoResults, <<>>, <<>>,
                            MsgNothingFound(search_term)), c1, http0)
      ELSE IF env.fault.at = "get_folder"
      THEN Escape(env.fault, search_and_summarise_except(env.fault.err, c2, http0), c2, http0)
      ELSE IF env.fault.at = "get_channels_in_folder"
      THEN Escape(env.fault, search_and_summarise_except(env.fault.err, c3, http0), c3, http0)
      ELSE LET ai == AiBranch(posts, posts, env, c3, http0,
                              MsgFound(Len(posts), search_term))
           IN  IF ai.cancelled THEN Cancelled(ai.calls, ai.http)
               ELSE Returned(mk(ai.main_topics, ai.overall_summary), ai.calls, ai.http)

\* --------------------------------------------------------- DatabaseManager
\* connect(): opens a connection only when none is held; ok = FALSE is
\* aiosqlite.connect raising
connect(conn0, ok) ==
  IF conn0 = NoneVal
  THEN IF ok THEN [raised |-> FALSE, conn |-> "open"] ELSE [raised |-> TRUE, conn |-> NoneVal]
  ELSE [raised |-> FALSE, conn |-> conn0]

\* a close() that closes the connection and keeps the reference
close_keeps_reference(conn0) == conn0

\* close(): closes the connection held, if any, and forgets it
close(conn0) == NoneVal

Rows(rows) == [kind |-> "Rows", rows |-> rows]

\* a read method of DatabaseManager: connect(), then the query; nothing is
\* caught, so a failing connect or query raises to the caller
db_read(conn0, connect_ok, fault, name, rows) ==
  LET c == connect(conn0, connect_ok)
      made == << Call(name, <<>>) >>
  IN  IF c.raised THEN [out |-> Raised(made, FALSE), conn |-> c.conn]
      ELSE IF fault.kind = "raise" THEN [out |-> Raised(made, FALSE), conn |-> c.conn]
      ELSE IF fault.kind = "cancel" THEN [out |-> Cancelled(made, FALSE), conn |-> c.conn]
      ELSE [out |-> Returned(Rows(rows), made, FALSE), conn |-> c.conn]

\* ------------------------------------------------------------ inputs drawn
LimitArgs == { None_, Some(0), Some(1), Some(DigestLimit + 1) }
DaysBackArgs == { None_, Some(0), Some(1), Some(7) }
SearchLimits == { 0, 2, 30 }
SearchTerms == { <<>>, << Tok("rates", FALSE, FALSE) >>, << Tok("market", TRUE, FALSE) >>,
                 << Tok("btc", FALSE, FALSE) >> }
Questions == { << Tok("rates", TRUE, FALSE) >>,
               << Tok("btc", FALSE, FALSE), Tok("news", FALSE, FALSE) >>,
               <<>> }

NoReq ==
  [ op |-> "none", folder_id |-> 0, limit |-> None_, days_back |-> None_,
    include_ai_summary |-> FALSE, text |-> <<>>, env |-> 
      [fault |-> NoFault, probe |-> "ok", first |-> DefaultStream, second |-> DefaultStream] ]

Req(op, folder_id, limit, days_back, include_ai_summary, text, env) ==
  [ op |-> op, folder_id |-> folder_id, limit |-> limit, days_back |-> days_back,
    include_ai_summary |-> include_ai_summary, text |-> text, env |-> env ]

VARIABLES
  db,        \* the store (never written)
  owner,     \* whose scoped session this is
  phase,     \* "new", "body", "leaving", "exited", "failed"
  exitHow,   \* how the body of the session ended
  conn,      \* DatabaseManager._connection
  http,      \* FreeGPTClient._client is an open httpx.AsyncClient
  pending,   \* an operation has finished and the body holds its result
  req,       \* the operation last called, with its arguments and environment
  status,    \* how it ended: "returned", "raised", "cancelled"
  result,    \* the value it returned
  calls,     \* the awaited calls it made, in order
  tasks,     \* where each concurrent task on one DatabaseManager stands
  opened     \* the connections its tasks opened: opened[k] is TRUE while open

vars ==
  << db, owner, phase, exitHow, conn, http, pending, req, status, result, calls,
     tasks, opened >>

Owners == {"TelegramSummariser", "DatabaseManager"}

\* a FreeGPTClient used on its own, without entering a session
ClientOwner == "FreeGPTClient"

\* a DatabaseManager whose methods run as concurrent tasks (asyncio.gather)
TasksOwner == "DatabaseManager tasks"

\* number of concurrent read tasks
ReaderTasks == 2

\* the task that calls close()
Closer == 0

TaskIds == 0..ReaderTasks

\* a task before its call, and at the await where it is suspended
TaskAt(pc, ref) == [pc |-> pc, ref |-> ref]

ConnId(k) == "conn" \o ToString(k)

\* the store whose posts are handed to a client used on its own
ClientStores == { MkStore(DigestLimit + ExtraPosts, FALSE, FALSE) }

Init ==
  /\ owner \in Owners \cup {ClientOwner, TasksOwner}
  /\ db \in (IF owner \in {ClientOwner, TasksOwner} THEN ClientStores ELSE Stores)
  /\ phase = (CASE owner = ClientOwner -> "direct"
                [] owner = TasksOwner -> "tasks"
                [] OTHER -> "new")
  /\ tasks = [t \in TaskIds |-> TaskAt("idle", NoneVal)]
  /\ opened = <<>>
  /\ exitHow = "none"
  /\ conn = NoneVal
  /\ http = FALSE
  /\ pending = FALSE
  /\ req = NoReq
  /\ status = "none"
  /\ result = NoResult
  /\ calls = <<>>

\* __aenter__ of TelegramSummariser and of DatabaseManager: connect()
AEnter ==
  /\ phase = "new"
  /\ \E ok \in BOOLEAN :
       LET c == connect(conn, ok)
       IN  /\ conn' = c.conn
           /\ phase' = IF c.raised THEN "failed" ELSE "body"
  /\ UNCHANGED << db, owner, exitHow, http, pending, req, status, result, calls, tasks, opened >>

\* __aexit__ of TelegramSummariser and of DatabaseManager: close()
AExit ==
  /\ phase = "leaving"
  /\ conn' = close(conn)
  /\ phase' = "exited"
  /\ UNCHANGED << db, owner, exitHow, http, pending, req, status, result, calls, tasks, opened >>

\* the effect of one finished operation on the session: a returned value is
\* handed to the body, a raised or cancelled call leaves the body
Finish(r, out, conn1) ==
  /\ req' = r
  /\ status' = out.status
  /\ result' = out.value
  /\ calls' = out.calls
  /\ http' = out.http
  /\ pending' = (out.status = "returned")
  /\ phase' = IF out.status = "returned" THEN "body" ELSE "leaving"
  /\ exitHow' = CASE out.status = "returned" -> exitHow
                  [] out.status = "cancelled" -> "cancelled"
                  [] OTHER -> "exception"
  /\ conn' = conn1
  /\ UNCHANGED << db, owner, tasks, opened >>

InBody(o) == phase = "body" /\ owner = o /\ ~pending

SummariseFolder ==
  /\ InBody("TelegramSummariser")
  /\ \E folder_id \in FolderIds, limit \in LimitArgs, days_back \in DaysBackArgs,
        include_ai_summary \in BOOLEAN :
       \E env \in Envs({"get_folder", "get_posts_by_folder", "get_channels_in_folder"},
                       {"health_check", "extract_topics", "generate_summary"},
                       StreamOutcomes, TextOutcomes, http) :
         Finish(Req("summarise_folder", folder_id, limit, days_back, include_ai_summary,
                    <<>>, env),
                summarise_folder(db, http, folder_id, limit, days_back,
                                 include_ai_summary, env),
                conn)

AskAboutPosts ==
  /\ InBody("TelegramSummariser")
  /\ \E folder_id \in FolderIds, question \in Questions, limit \in LimitArgs,
        days_back \in DaysBackArgs :
       \E env \in Envs({"get_posts_by_folder"}, {"health_check", "answer_question"},
                       TextOutcomes, {DefaultStream}, http) :
         Finish(Req("ask_about_posts", folder_id, limit, days_back, TRUE, question, env),
                ask_about_posts(db, http, folder_id, question, limit, days_back, env),
                conn)

SearchAndSummarise ==
  /\ InBody("TelegramSummariser")
  /\ \E folder_id \in FolderIds, search_term \in SearchTerms, limit \in SearchLimits :
       \E env \in Envs({"search_posts", "get_folder", "get_channels_in_folder"},
                       {"health_check", "extract_topics", "generate_summary"},
                       StreamOutcomes, TextOutcomes, http) :
         Finish(Req("search_and_summarise", folder_id, Some(limit), None_, TRUE,
                    search_term, env),
                search_and_summarise(db, http, folder_id, search_term, limit, env),
                conn)

DbEnv(f) == [NoReq.env EXCEPT !.fault = f]

DbFaults(name) == {NoFault, RaiseAt(name), CancelAt(name)}

DbGetFolder ==
  /\ InBody("DatabaseManager")
  /\ \E folder_id \in FolderIds, f \in DbFaults("get_folder"), ok \in BOOLEAN :
       LET r == db_read(conn, ok, f, "get_folder", get_folder(db, folder_id))
       IN  Finish(Req("get_folder", folder_id, None_, None_, FALSE, <<>>, DbEnv(f)),
                  [r.out EXCEPT !.http = http], r.conn)

DbGetChannelsInFolder ==
  /\ InBody("DatabaseManager")
  /\ \E folder_id \in FolderIds, f \in DbFaults("get_channels_in_folder"), ok \in BOOLEAN :
       LET r == db_read(conn, ok, f, "get_channels_in_folder",
                        get_channels_in_folder(db, folder_id))
       IN  Finish(Req("get_channels_in_folder", folder_id, None_, None_, FALSE, <<>>, DbEnv(f)),
                  [r.out EXCEPT !.http = http], r.conn)

DbGetPostsByFolder ==
  /\ InBody("DatabaseManager")
  /\ \E folder_id \in FolderIds, limit \in LimitArgs, days_back \in DaysBackArgs,
        f \in DbFaults("get_posts_by_folder"), ok \in BOOLEAN :
       LET r == db_read(conn, ok, f, "get_posts_by_folder",
                        get_posts_by_folder(db, folder_id, limit, days_back))
       IN  Finish(Req("get_posts_by_folder", folder_id, limit, days_back, FALSE, <<>>, DbEnv(f)),
                  [r.out EXCEPT !.http = http], r.conn)

DbSearchPosts ==
  /\ InBody("DatabaseManager")
  /\ \E folder_id \in FolderIds, search_term \in SearchTerms, limit \in SearchLimits,
        f \in DbFaults("search_posts"), ok \in BOOLEAN :
       LET r == db_read(conn, ok, f, "search_posts",
                        search_posts(db, folder_id, search_term, limit))
       IN  Finish(Req("search_posts", folder_id, Some(limit), None_, FALSE, search_term, DbEnv(f)),
                  [r.out EXCEPT !.http = http], r.conn)

\* the effect of one finished call on a client used without a session
ClientFinish(r, out) ==
  /\ req' = r
  /\ status' = out.status
  /\ result' = out.value
  /\ calls' = out.calls
  /\ http' = out.http
  /\ pending' = TRUE
  /\ UNCHANGED << db, owner, phase, exitHow, conn, tasks, opened >>

Direct == phase = "direct" /\ owner = ClientOwner /\ ~pending

ClientReq(op, text, probe, first, cancel, attempts, max_retries) ==
  [ op |-> op, folder_id |-> 0, limit |-> None_, days_back |-> None_,
    include_ai_summary |-> FALSE, text |-> text,
    env |-> [ fault |-> cancel, probe |-> probe, first |-> first, second |-> DefaultStream,
              attempts |-> attempts, max_retries |-> max_retries ] ]

\* the sequences of length n over S
SeqsOf(S, n) == [1..n -> S]

\* the awaits of _make_request at which the task can be cancelled
RequestCancels(max_retries) ==
  {NoCancel} \cup {CancelIn(at, k) : at \in {"send", "sleep"}, k \in 0..max_retries}

MakeRequest ==
  /\ Direct
  /\ \E method \in Methods, max_retries \in 0..MaxRetriesBound :
       \E outcomes \in SeqsOf(AttemptOutcomes, max_retries + 1),
          cancel \in RequestCancels(max_retries) :
         ClientFinish(ClientReq("_make_request", << method >>, "ok", DefaultStream, cancel,
                                outcomes, max_retries),
                      make_request(method, outcomes, 0, max_retries, cancel, <<>>))

\* the posts a caller hands to a client method
ClientPosts == { <<>>, Take(OrderByDateDesc(db.posts), 2), OrderByDateDesc(db.posts) }

ClientCancels == {NoCancel, CancelIn("send", 0)}

HealthCheck ==
  /\ Direct
  /\ \E probe \in {q \in ProbeOutcomes : q = "create_raises" => ~http},
        cancel \in ClientCancels :
       ClientFinish(ClientReq("health_check", <<>>, probe, DefaultStream, cancel, <<>>,
                              DefaultMaxRetries),
                    client_health_check(probe, cancel, http))

ClientCall ==
  /\ Direct
  /\ \E name \in {"generate_summary", "answer_question", "extract_topics"},
        posts \in ClientPosts, out \in DirectStreamOutcomes, cancel \in ClientCancels,
        max_retries \in 0..MaxRetriesBound :
       \E question \in (IF name = "answer_question" THEN Questions ELSE {<<>>}) :
         ClientFinish([ClientReq(name, question, "ok", out, cancel, <<>>, max_retries)
                         EXCEPT !.limit = Some(Len(posts))],
                      client_call(name, posts, question, out, cancel, http))

\* a read method finished outside a session: nothing is left, the manager
\* keeps what connect() gave it
OutsideFinish(r, out, conn1) ==
  /\ req' = r
  /\ status' = out.status
  /\ result' = out.value
  /\ calls' = out.calls
  /\ conn' = conn1
  /\ UNCHANGED << db, owner, phase, exitHow, http, pending, tasks, opened >>

\* get_folder or get_channels_in_folder called after the session was left
DbReadAfterExit ==
  /\ phase = "exited" /\ owner = "DatabaseManager"
  /\ \E folder_id \in FolderIds, ok \in BOOLEAN :
       \/ \E f \in DbFaults("get_folder") :
            LET r == db_read(conn, ok, f, "get_folder", get_folder(db, folder_id))
            IN  OutsideFinish(Req("get_folder", folder_id, None_, None_, FALSE, <<>>,
                                  DbEnv(f)),
                              [r.out EXCEPT !.http = http], r.conn)
       \/ \E f \in DbFaults("get_channels_in_folder") :
            LET r == db_read(conn, ok, f, "get_channels_in_folder",
                             get_channels_in_folder(db, folder_id))
            IN  OutsideFinish(Req("get_channels_in_folder", folder_id, None_, None_, FALSE,
                                  <<>>, DbEnv(f)),
                              [r.out EXCEPT !.http = http], r.conn)

\* close() called after the session was left
DbCloseAfterExit ==
  /\ phase = "exited" /\ owner = "DatabaseManager"
  /\ conn # NoneVal
  /\ conn' = close(conn)
  /\ UNCHANGED << db, owner, phase, exitHow, http, pending, req, status, result, calls,
                  tasks, opened >>

InTasks(t, pc) == phase = "tasks" /\ owner = TasksOwner /\ tasks[t].pc = pc

TaskStep(t, pc, ref) ==
  /\ tasks' = [tasks EXCEPT ![t] = TaskAt(pc, ref)]
  /\ UNCHANGED << db, owner, phase, exitHow, http, pending, req, status, result, calls >>

\* a task calls a read method: connect() tests _connection and, when it is
\* None, suspends in aiosqlite.connect; otherwise the query is executed on
\* the connection held
ReadCalls(t) ==
  /\ t # Closer /\ InTasks(t, "idle")
  /\ IF conn = NoneVal
     THEN TaskStep(t, "connecting", NoneVal)
     ELSE TaskStep(t, "executing", conn)
  /\ UNCHANGED << conn, opened >>

\* aiosqlite.connect returns a new connection, which connect() assigns to
\* _connection whatever that holds by now; or it raises
ConnectReturns(t) ==
  /\ InTasks(t, "connecting")
  /\ \/ /\ opened' = Append(opened, TRUE)
        /\ conn' = ConnId(Len(opened) + 1)
        /\ TaskStep(t, "executing", ConnId(Len(opened) + 1))
     \/ /\ TaskStep(t, "raised", NoneVal)
        /\ UNCHANGED << conn, opened >>

\* the query of the read method returns (or raises)
ExecuteReturns(t) ==
  /\ InTasks(t, "executing")
  /\ \E pc \in {"done", "raised"} : TaskStep(t, pc, NoneVal)
  /\ UNCHANGED << conn, opened >>

\* a task calls close(): with a connection held it suspends in its close()
CloseCalls ==
  /\ InTasks(Closer, "idle")
  /\ IF conn # NoneVal
     THEN TaskStep(Closer, "closing", conn)
     ELSE TaskStep(Closer, "done", NoneVal)
  /\ UNCHANGED << conn, opened >>

\* the close() of the connection returns and _connection is set to None
CloseReturns ==
  /\ InTasks(Closer, "closing")
  /\ opened' = [k \in 1..Len(opened) |->
                  IF ConnId(k) = tasks[Closer].ref THEN FALSE ELSE opened[k]]
  /\ conn' = NoneVal
  /\ TaskStep(Closer, "done", NoneVal)

\* the body takes the result of the finished call and goes on
Resume ==
  /\ phase \in {"body", "direct"} /\ pending
  /\ pending' = FALSE
  /\ req' = NoReq /\ status' = "none" /\ result' = NoResult /\ calls' = <<>>
  /\ UNCHANGED << db, owner, phase, exitHow, conn, http, tasks, opened >>

\* the body of the async with block ends: it returns, or its own code raises
BodyEnds ==
  /\ phase = "body" /\ ~pending
  /\ \E how \in {"normal", "exception"} : exitHow' = how
  /\ phase' = "leaving"
  /\ UNCHANGED << db, owner, conn, http, pending, req, status, result, calls, tasks, opened >>

Next ==
  \/ AEnter
  \/ AExit
  \/ SummariseFolder
  \/ AskAboutPosts
  \/ SearchAndSummarise
  \/ DbGetFolder
  \/ DbGetChannelsInFolder
  \/ DbGetPostsByFolder
  \/ DbSearchPosts
  \/ MakeRequest
  \/ HealthCheck
  \/ ClientCall
  \/ DbReadAfterExit
  \/ DbCloseAfterExit
  \/ \E t \in TaskIds : ReadCalls(t)
  \/ \E t \in TaskIds : ConnectReturns(t)
  \/ \E t \in TaskIds : ExecuteReturns(t)
  \/ CloseCalls
  \/ CloseReturns
  \/ Resume
  \/ BodyEnds

Spec == Init /\ [][Next]_vars

\* ===================================================================== claims
PipelineOps == {"summarise_folder", "ask_about_posts", "search_and_summarise"}
SummaryOps == {"summarise_folder", "search_and_summarise"}

Made(name) == \E k \in 1..Len(calls) : calls[k].call = name

\* the fault of the environment struck: the call it names was the last one made
FaultStruck ==
  /\ req.env.fault.kind # "none"
  /\ calls # <<>>
  /\ calls[Len(calls)].call = req.env.fault.at

StoreRaised == FaultStruck /\ req.env.fault.kind = "raise"

FolderExists == \E f \in db.folders : f.id = req.folder_id

\* the posts the store holds for the folder of the call
StoredPosts ==
  { p \in db.posts :
      \E c \in db.channels : c.id = p.channel_id /\ c.folder_id = req.folder_id }

\* the posts the finished call fetched
Fetched ==
  IF req.op = "search_and_summarise"
  THEN search_posts(db, req.folder_id, req.text, req.limit[1])
  ELSE get_posts_by_folder(db, req.folder_id, req.limit, req.days_back)

\* the fixed messages that carry the "not found" wording
NotFoundIndicator(s) ==
  s \in {MsgNoPostsInPeriod, MsgAskNoPosts} \cup {MsgNothingFound(t) : t \in SearchTerms}

ReturnedOf(ops) == req.op \in ops /\ status = "returned"

C2_AsStated ==
  (ReturnedOf(PipelineOps) /\ ~FolderExists /\ ~FaultStruck) =>
    /\ req.op \in SummaryOps => result = NoneResult
    /\ req.op = "ask_about_posts" =>
         (result.kind = "AIResponse" /\ NotFoundIndicator(result.answer))

\* C2 amended: for a folder identifier without a folder row, summarise_folder
\* returns None; search_and_summarise and ask_about_posts do not look the
\* folder up before fetching and return a present result, which, when no post
\* is joined to that identifier, is the zero-count "no results" Summary and
\* the zero-confidence AIResponse whose answer carries the "not found" wording.
C2_MissingFolder ==
  (ReturnedOf(PipelineOps) /\ ~FolderExists /\ ~FaultStruck) =>
    /\ req.op = "summarise_folder" => result = NoneResult
    /\ req.op = "search_and_summarise" =>
         /\ result.kind = "Summary"
         /\ StoredPosts = {} =>
              /\ result.total_posts = 0
              /\ result.date_range = MsgNoResults
              /\ result.overall_summary = MsgNothingFound(req.text)
    /\ req.op = "ask_about_posts" =>
         /\ result.kind = "AIResponse"
         /\ StoredPosts = {} =>
              /\ NotFoundIndicator(result.answer)
              /\ result.confidence = ConfidenceNone

C2_Witness ==
  /\ ReturnedOf({"search_and_summarise"}) /\ ~FolderExists /\ ~FaultStruck
  /\ StoredPosts = {}
  /\ result.kind = "Summary" /\ result.total_posts = 0

\* C3: summarise_folder with include_ai_summary, at least one fetched post and
\* a probe that reports the service down calls neither extract_topics nor
\* generate_summary; main_topics is the word-frequency list of the fetched
\* posts and the narrative is the fixed "service unavailable" text.
C3_ProbeDownFallsBack ==
  ( /\ ReturnedOf({"summarise_folder"}) /\ req.include_ai_summary
    /\ Made("health_check") /\ req.env.probe # "ok" ) =>
    /\ ~Made("extract_topics") /\ ~Made("generate_summary")
    /\ result.kind = "Summary"
    /\ result.main_topics = extract_simple_topics(Fetched)
    /\ result.overall_summary = MsgServiceUnavailable

C3_Witness ==
  /\ ReturnedOf({"summarise_folder"}) /\ req.include_ai_summary
  /\ Made("health_check") /\ req.env.probe = "status_raises"
  /\ Len(Fetched) > DigestLimit
  /\ Len(result.main_topics) >= 3
  /\ result.overall_summary = MsgServiceUnavailable

\* C4 as stated: once the TelegramSummariser session has been left, the AI
\* client holds no open HTTP client.
C4_HttpReleasedOnExit ==
  (owner = "TelegramSummariser" /\ phase = "exited") => ~http

\* C5: whichever way the body of a TelegramSummariser or DatabaseManager
\* session ends (it returns, raises, or its task is cancelled), the exit
\* handler runs close() and the manager holds no connection afterwards.
C5_ConnectionReleased ==
  [][(phase # "exited" /\ phase' = "exited") =>
       (phase = "leaving" /\ conn = "open" /\ conn' = NoneVal)]_vars

C5_Witness ==
  /\ phase = "exited" /\ exitHow = "cancelled" /\ conn = NoneVal

\* C6 as stated: a Summary produced on a path where the probe reported the
\* service alive has at most 7 main_topics and at most 20 digests.
C6_Bounded ==
  (ReturnedOf(SummaryOps) /\ Made("health_check") /\ req.env.probe = "ok") =>
    /\ Len(result.main_topics) <= TopicLimit
    /\ Len(result.posts) <= DigestLimit

\* C7 as stated: the date_range of a Summary over fetched posts is one date
\* when all of them fall on one calendar day and "<earliest> - <latest>"
\* otherwise.
C7_DateRangeCollapses ==
  (ReturnedOf(SummaryOps) /\ result.kind = "Summary" /\ result.total_posts > 0) =>
    result.date_range = format_date_range(MinDate(Fetched), MaxDate(Fetched))

\* the row of the store a digest was built from, and the channel row of it
PostRow(d) == CHOOSE p \in db.posts : p.id = d.post_id
ChannelRow(p) == CHOOSE c \in db.channels : c.id = p.channel_id

\* C8: the link of a digest is the stored link of its post when that is
\* present (not NULL and not empty); otherwise it is
\* https://t.me/<username>/<tg_post_id> when the channel of the post has a
\* username; otherwise it is absent.
C8_DigestLink ==
  (ReturnedOf(SummaryOps) /\ result.kind = "Summary") =>
    \A k \in 1..Len(result.posts) :
      LET d == result.posts[k]
          p == PostRow(d)
          c == ChannelRow(p)
      IN  /\ Truthy(p.link) => d.link = p.link
          /\ (~Truthy(p.link) /\ Truthy(c.username)) =>
               d.link = "https://t.me/" \o c.username \o "/" \o ToString(p.tg_post_id)
          /\ (~Truthy(p.link) /\ ~Truthy(c.username)) => d.link = NoneVal

C8_Witness ==
  /\ ReturnedOf(SummaryOps) /\ result.kind = "Summary"
  /\ \E k \in 1..Len(result.posts) : result.posts[k].link = "https://t.me/chan_a/1001"
  /\ \E k \in 1..Len(result.posts) : result.posts[k].link = "https://example.org/p"
  /\ \E k \in 1..Len(result.posts) :
       /\ result.posts[k].link = NoneVal
       /\ PostRow(result.posts[k]).link = ""

\* C9: for an existing folder whose fetch gives no post, summarise_folder
\* returns the Summary with total_posts 0, no topics, no digests and the fixed
\* "no data" texts, whatever include_ai_summary is, and makes no probe and no
\* completion call.
C9_EmptyFolder ==
  ( /\ ReturnedOf({"summarise_folder"}) /\ FolderExists /\ ~FaultStruck
    /\ Fetched = <<>> ) =>
    /\ result.kind = "Summary"
    /\ result.total_posts = 0
    /\ result.main_topics = <<>>
    /\ result.posts = <<>>
    /\ result.date_range = MsgNoData
    /\ result.overall_summary = MsgNoPostsInPeriod
    /\ ~Made("health_check") /\ ~Made("extract_topics") /\ ~Made("generate_summary")

C9_Witness ==
  /\ ReturnedOf({"summarise_folder"}) /\ FolderExists /\ ~FaultStruck
  /\ req.include_ai_summary
  /\ StoredPosts # {} /\ Fetched = <<>>
  /\ result.total_posts = 0

\* C10 as stated: ask_about_posts returns confidence 0.8 only when the remote
\* answer request succeeded.
C10_ConfidenceOnlyOnSuccess ==
  (ReturnedOf({"ask_about_posts"}) /\ result.confidence = ConfidenceOk) =>
    (Made("answer_question") /\ req.env.first.ok)

\* a finished direct call of the client that no cancellation cut short
ClientDone(op) == req.op = op /\ req.env.fault.kind = "none"

\* the awaits of a _make_request that made n attempts: attempt 0, a sleep of
\* 1, attempt 1, a sleep of 2, ..., attempt n - 1
ExpectedCalls(n) ==
  [ i \in 1..(2 * n - 1) |->
      IF i % 2 = 1
      THEN [call |-> SendCall(req.text[1]), ctx |-> << (i - 1) \div 2 >>]
      ELSE [call |-> "asyncio.sleep", ctx |-> << 2 ^ ((i \div 2) - 1) >>] ]

\* C11: when every attempt of _make_request fails with an HTTP status error
\* or a request error, it makes max_retries + 1 attempts one after the other,
\* sleeps 2^k seconds after failed attempt k before the next, and raises the
\* failure of the last attempt; when attempt j is the first to succeed (the
\* earlier ones having failed that way) it returns the parsed reply of
\* attempt j and makes no further attempt.
C11_RetriesThenRaises ==
  ClientDone("_make_request") =>
    LET m == req.env.max_retries
        a == req.env.attempts
    IN  /\ (\A j \in 1..(m + 1) : a[j] \in Transient) =>
             /\ status = "raised"
             /\ calls = ExpectedCalls(m + 1)
             /\ result = [kind |-> "Error", err |-> a[m + 1], attempt |-> m]
        /\ \A j \in 1..(m + 1) :
             (a[j] = "ok" /\ \A i \in 1..(j - 1) : a[i] \in Transient) =>
               /\ status = "returned"
               /\ calls = ExpectedCalls(j)
               /\ result = [kind |-> "Json", attempt |-> j - 1]

C11_Witness ==
  /\ ClientDone("_make_request")
  /\ req.env.max_retries = DefaultMaxRetries
  /\ \A j \in 1..(DefaultMaxRetries + 1) : req.env.attempts[j] \in Transient
  /\ status = "raised"
  /\ Len(calls) = 2 * DefaultMaxRetries + 1
  /\ calls[6] = [call |-> "asyncio.sleep", ctx |-> << 4 >>]

CompletionCalls == {"generate_summary", "answer_question", "extract_topics"}

\* the number of requests the finished call sent
Sends == Cardinality({k \in 1..Len(calls) : calls[k].call = "client.post"})

\* the backoff delays the finished call slept, in order
Sleeps ==
  LET s == SelectSeq(calls, LAMBDA c : c.call = "asyncio.sleep")
  IN  [k \in 1..Len(s) |-> s[k].ctx[1]]

\* C12 as stated: a completion request of generate_summary, answer_question
\* or extract_topics that fails with an HTTP status error or a connection
\* error is sent again up to max_retries times with delays 1, 2, 4, ..., and
\* the failure is reported only after max_retries + 1 attempts.
C12_CompletionCallsRetried ==
  ( /\ req.op \in CompletionCalls /\ req.env.fault.kind = "none"
    /\ req.limit[1] > 0 /\ ~req.env.first.ok ) =>
    /\ Sends = req.env.max_retries + 1
    /\ Sleeps = [k \in 1..req.env.max_retries |-> 2 ^ (k - 1)]

\* a finished summarise_folder that took the AI branch with the probe alive
AiPathTaken ==
  /\ ReturnedOf({"summarise_folder"}) /\ req.include_ai_summary
  /\ req.env.probe = "ok" /\ Made("generate_summary")

\* the narratives that describe an error
ErrorNarrative(s) ==
  s \in {"Error generating summary.", "AI analysis error: ConnectError"}
        \cup {"Error generating summary: " \o o.err : o \in {x \in StreamOutcomes : ~x.ok}}

\* C13 as stated: in summarise_folder with include_ai_summary and the probe
\* alive, when the topic request or the summary request fails the Summary
\* returned carries the word-frequency topics of the fetched posts and an
\* error-describing narrative.
C13_RemoteFailureFallsBack ==
  (AiPathTaken /\ (~req.env.first.ok \/ ~req.env.second.ok)) =>
    /\ result.kind = "Summary"
    /\ result.main_topics = extract_simple_topics(Fetched)
    /\ ErrorNarrative(result.overall_summary)

\* C14: health_check raises no Exception: it returns True exactly when the
\* GET was answered with a success status and False when creating the
\* client, sending the GET or raise_for_status() raised; only the
\* cancellation of the task while the GET is awaited ends it without a value.
C14_HealthCheckNeverRaises ==
  req.op = "health_check" =>
    /\ status # "raised"
    /\ status = "cancelled" => (req.env.fault.kind = "cancel" /\ calls # <<>>)
    /\ status = "returned" =>
         /\ result.kind = "Bool"
         /\ result.value = (req.env.probe = "ok")
         /\ req.env.probe \in {"create_raises", "send_raises", "status_raises"} =>
              result.value = FALSE

C14_Witness ==
  /\ req.op = "health_check" /\ status = "returned"
  /\ req.env.probe = "status_raises"
  /\ result = [kind |-> "Bool", value |-> FALSE]
  /\ calls # <<>>

\* C15: in summarise_folder with include_ai_summary, at least one fetched post
\* and the probe alive, overall_summary is the string generate_summary
\* returned for the first 20 fetched posts and main_topics is the list
\* extract_topics returned for them.
C15_AiResultsPassedThrough ==
  AiPathTaken =>
    /\ Made("extract_topics")
    /\ result.kind = "Summary"
    /\ result.overall_summary = generate_summary(Take(Fetched, DigestLimit), req.env.second)
    /\ result.main_topics = extract_topics(Take(Fetched, DigestLimit), req.env.first)

C15_Witness ==
  /\ AiPathTaken
  /\ req.env.first.ok /\ req.env.second.ok
  /\ result.overall_summary = "AI digest"
  /\ result.main_topics = << "t1", "t2" >>
  /\ Len(extract_simple_topics(Fetched)) > 0

\* the channels of the folder of the call
FolderChannels == {c \in db.channels : c.folder_id = req.folder_id}

\* a finished summarise_folder without include_ai_summary that fetched posts
LocalPathTaken ==
  /\ ReturnedOf({"summarise_folder"}) /\ ~req.include_ai_summary
  /\ FolderExists /\ ~FaultStruck /\ Fetched # <<>>

\* C16: summarise_folder without include_ai_summary and with at least one
\* fetched post makes no probe and no completion call; main_topics is the
\* word-frequency list (at most 5 words), total_posts the number of fetched
\* posts, and overall_summary names that number and the number of channels of
\* the folder.
C16_LocalSummary ==
  LocalPathTaken =>
    /\ ~Made("health_check") /\ ~Made("extract_topics") /\ ~Made("generate_summary")
    /\ result.kind = "Summary"
    /\ result.main_topics = extract_simple_topics(Fetched)
    /\ Len(result.main_topics) <= 5
    /\ result.total_posts = Len(Fetched)
    /\ result.overall_summary =
         "Analysed " \o ToString(Len(Fetched)) \o " posts from "
           \o ToString(Cardinality(FolderChannels)) \o " channels."

C16_Witness ==
  /\ LocalPathTaken
  /\ result.total_posts = DigestLimit + 1
  /\ Cardinality(FolderChannels) = 2
  /\ Len(result.main_topics) = 5

\* a finished search_and_summarise whose search gave no post
NoMatch ==
  /\ ReturnedOf({"search_and_summarise"}) /\ ~FaultStruck
  /\ Fetched = <<>>

\* C17: when the search gives no post, search_and_summarise returns a Summary
\* with total_posts 0, no topics, no digests, the "no results" date range and
\* a narrative that quotes the search term, and makes no probe, no completion
\* call and no further store read.
C17_NoMatchSummary ==
  NoMatch =>
    /\ result.kind = "Summary"
    /\ result.total_posts = 0
    /\ result.main_topics = <<>>
    /\ result.posts = <<>>
    /\ result.date_range = "No results"
    /\ result.overall_summary = "For query '" \o TermStr(req.text) \o "' nothing was found."
    /\ result.folder_name = "Search: " \o TermStr(req.text)
    /\ ~Made("health_check") /\ ~Made("extract_topics") /\ ~Made("generate_summary")
    /\ Len(calls) = 1

C17_Witness ==
  /\ NoMatch
  /\ req.text = << Tok("btc", FALSE, FALSE) >>
  /\ req.limit[1] > 0
  /\ StoredPosts # {}
  /\ result.total_posts = 0
  /\ result.overall_summary = "For query 'btc' nothing was found."

\* the reference result of get_posts_by_folder: a supplied days_back or limit
\* is applied whatever its value
ReferencePosts(store, folder_id, limit, days_back) ==
  LET joined   == { p \in store.posts :
                      \E c \in store.channels :
                        c.id = p.channel_id /\ c.folder_id = folder_id }
      filtered == IF days_back # <<>>
                  THEN {p \in joined : p.date >= Now - days_back[1] * DayLen}
                  ELSE joined
      ordered  == OrderByDateDesc(filtered)
  IN  IF limit # <<>> THEN SubSeq(ordered, 1, Min(limit[1], Len(ordered))) ELSE ordered

\* C18 as stated: get_posts_by_folder returns the posts joined to the folder,
\* not older than days_back days when days_back is supplied (0 included),
\* newest first, cut to the first limit rows when limit is supplied
\* (0 included).
C18_MatchesReference ==
  (req.op = "get_posts_by_folder" /\ status = "returned") =>
    result.rows = ReferencePosts(db, req.folder_id, req.limit, req.days_back)

StoreReads == {"get_folder", "get_channels_in_folder", "get_posts_by_folder", "search_posts"}

\* C19 as stated: a store read that raises during summarise_folder,
\* ask_about_posts or search_and_summarise raises to the caller of the
\* operation.
C19_AsStated ==
  (req.op \in PipelineOps /\ StoreRaised) => status = "raised"

\* C19 amended: a store read that raises is not caught by the DatabaseManager
\* method, but the outermost handler of the pipeline operation catches it:
\* the operation makes no further call and returns None (summarise_folder,
\* search_and_summarise) or the zero-confidence AIResponse whose answer
\* carries the error (ask_about_posts), and the body of the session goes on
\* with its connection open.
C19_StoreFailureAbsorbed ==
  /\ (req.op \in PipelineOps /\ StoreRaised) =>
       /\ status = "returned"
       /\ phase \in {"body", "leaving", "exited"}
       /\ pending => (phase = "body" /\ conn = "open" /\ exitHow = "none")
       /\ ~Made("health_check")
       /\ req.op \in SummaryOps => result.kind = "None"
       /\ req.op = "ask_about_posts" =>
            /\ result.kind = "AIResponse"
            /\ result.question = req.text
            /\ result.answer = "Error processing question: OperationalError"
            /\ result.related_posts = <<>>
            /\ result.confidence = 0
  /\ (req.op \in StoreReads /\ req.env.fault.kind = "raise") =>
       (status = "raised" /\ phase \in {"leaving", "exited"})

C19_Witness ==
  /\ req.op = "search_and_summarise" /\ StoreRaised
  /\ req.env.fault.at = "get_folder"
  /\ Len(calls) = 2
  /\ status = "returned" /\ result.kind = "None"
  /\ pending /\ phase = "body" /\ conn = "open"

\* the task was cancelled while the finished call was suspended in an await
CancelStruck ==
  \/ req.op \in PipelineOps /\ FaultStruck /\ req.env.fault.kind = "cancel"
  \/ /\ req.op = "_make_request" /\ req.env.fault.kind = "cancel"
     /\ calls # <<>>
     /\ calls[Len(calls)] =
          [ call |-> IF req.env.fault.at = "sleep" THEN "asyncio.sleep"
                     ELSE SendCall(req.text[1]),
            ctx |-> << IF req.env.fault.at = "sleep" THEN 2 ^ req.env.fault.attempt
                       ELSE req.env.fault.attempt >> ]

\* C20: a cancellation of the task while an operation is suspended at a store
\* read, the probe, a completion call or a backoff sleep leaves the operation
\* as a cancellation: no handler turns it into a value.  In a session the
\* body is left, the exit handler is the one step that can follow, and after
\* it the manager holds no connection.
C20_CancellationPropagates ==
  CancelStruck =>
    /\ status = "cancelled"
    /\ result = NoResult
    /\ ~pending \/ owner = ClientOwner
    /\ req.op \in PipelineOps =>
         /\ exitHow = "cancelled"
         /\ phase \in {"leaving", "exited"}
         /\ phase = "leaving" => (conn = "open" /\ ENABLED AExit)
         /\ phase = "exited" => conn = NoneVal

C20_Witness ==
  /\ CancelStruck
  /\ req.op = "summarise_folder" /\ req.env.fault.at = "generate_summary"
  /\ status = "cancelled"
  /\ phase = "exited" /\ conn = NoneVal

C20_WitnessSleep ==
  /\ CancelStruck
  /\ req.op = "_make_request" /\ req.env.fault.at = "sleep" /\ req.env.fault.attempt = 1
  /\ status = "cancelled"

TextCalls == {"generate_summary", "answer_question"}

\* max_length of the finished call (the default of its method)
MaxLengthOf(op) == IF op = "generate_summary" THEN 1000 ELSE 1500

\* the first max_length characters of a reply
CutTo(r, max_length) ==
  IF ReplyLen(r) <= max_length THEN r ELSE r \o "[:" \o ToString(max_length) \o "]"

ErrorPrefix(op) ==
  IF op = "generate_summary" THEN "Error generating summary" ELSE "Error generating answer"

\* the parts of the claim that do not depend on the reply being empty
TextCallBasics ==
  /\ status = "returned"
  /\ result.kind = "Text"
  /\ req.limit[1] = 0 => (result.text = "No posts to analyse." /\ calls = <<>>)
  /\ (req.limit[1] > 0 /\ ~req.env.first.ok) =>
       /\ result.text = ErrorPrefix(req.op) \o ": " \o req.env.first.err
       /\ Sends = 1

C22_TopicsFromReply ==
  (req.op = "extract_topics" /\ req.env.fault.kind = "none") =>
    /\ status = "returned"
    /\ result.kind = "Topics"
    /\ (req.limit[1] = 0 \/ ~req.env.first.ok) => result.topics = <<>>
    /\ (req.limit[1] > 0 /\ req.env.first.ok /\ req.env.first.reply # "") =>
         IF ReplyBracket(req.env.first.reply) = "array"
         THEN result.topics =
                SubSeq(ReplyArray(req.env.first.reply), 1,
                       Min(7, Len(ReplyArray(req.env.first.reply))))
         ELSE result.topics = extract_topics_from_text(req.env.first.reply)

\* C23: the context of every completion call of a pipeline operation holds
\* the fetched posts in fetch order, entry k being post k, and stops after
\* the 20th; search_and_summarise, which hands over every matched post, is
\* no exception.
C23_ContextBounded ==
  (req.op \in PipelineOps /\ status # "none") =>
    \A k \in 1..Len(calls) :
      calls[k].call \in CompletionCalls =>
        /\ Len(calls[k].ctx) = Min(Len(Fetched), 20)
        /\ Len(calls[k].ctx) >= 1
        /\ \A i \in 1..Len(calls[k].ctx) : calls[k].ctx[i] = Fetched[i].id

C23_Witness ==
  /\ ReturnedOf({"search_and_summarise"})
  /\ Len(Fetched) > 20
  /\ Len(result.posts) > 20
  /\ \E k \in 1..Len(calls) :
       calls[k].call = "generate_summary" /\ Len(calls[k].ctx) = 20

\* a finished summarise_folder that returned a Summary over fetched posts
FolderSummarised ==
  /\ ReturnedOf({"summarise_folder"}) /\ result.kind = "Summary"
  /\ Fetched # <<>>

FetchedDates(f) == {f[k].date : k \in 1..Len(f)}

\* C24: summarise_folder over n fetched posts reports total_posts = n and a
\* date_range from the earliest to the latest date of all n posts, and its
\* digests are those of the first min(n, 20) fetched posts, one each, in
\* fetch order (newest first).
C24_TotalsAndDigests ==
  (ReturnedOf({"summarise_folder"}) /\ result.kind = "Summary") =>
    LET f == Fetched
        dates == FetchedDates(f)
        first == CHOOSE d \in dates : \A e \in dates : d <= e
        last == CHOOSE d \in dates : \A e \in dates : d >= e
    IN  f # <<>> =>
          /\ result.total_posts = Len(f)
          /\ result.date_range =
               "day" \o ToString(first \div DayLen) \o " - " \o
               "day" \o ToString(last \div DayLen)
          /\ Len(result.posts) = Min(Len(f), 20)
          /\ \A k \in 1..Len(result.posts) :
               /\ result.posts[k].post_id = f[k].id
               /\ result.posts[k].date = f[k].date
          /\ \A k \in 1..(Len(result.posts) - 1) :
               result.posts[k].date >= result.posts[k + 1].date

C24_Witness ==
  /\ FolderSummarised
  /\ Len(Fetched) > 20
  /\ Len(result.posts) = 20
  /\ result.total_posts = Len(Fetched)
  /\ Fetched[Len(Fetched)].date \div DayLen < Fetched[20].date \div DayLen

IsSend(c) == c.call \in {"client.post", "client.get"}

\* C25: however a _make_request ends, none of its backoff delays exceeds
\* 2^max_retries seconds, and its awaits are one chain: attempt 0, then for
\* each later attempt k the failure of attempt k - 1, one sleep, and only
\* then attempt k; no attempt starts while another is awaited.
C25_BoundedSequentialRetries ==
  (req.op = "_make_request" /\ status # "none") =>
    LET m == req.env.max_retries
        a == req.env.attempts
    IN  /\ calls # <<>>
        /\ \A i \in 1..Len(calls) :
             /\ IsSend(calls[i]) <=> i % 2 = 1
             /\ calls[i].call = "asyncio.sleep" <=> i % 2 = 0
             /\ IsSend(calls[i]) =>
                  /\ calls[i].ctx = << (i - 1) \div 2 >>
                  /\ calls[i].ctx[1] <= m
                  /\ i > 1 => a[(i - 1) \div 2] \in Transient
             /\ calls[i].call = "asyncio.sleep" =>
                  /\ calls[i].ctx[1] <= 2 ^ m
                  /\ calls[i].ctx[1] >= 1
                  /\ a[i \div 2] \in Transient
        /\ Cardinality({i \in 1..Len(calls) : IsSend(calls[i])}) <= m + 1
        /\ m = DefaultMaxRetries =>
             \A i \in 1..Len(calls) : calls[i].call = "asyncio.sleep" => calls[i].ctx[1] <= 8

C25_Witness ==
  /\ req.op = "_make_request" /\ status = "returned"
  /\ req.env.max_retries = DefaultMaxRetries
  /\ Len(calls) = 7
  /\ calls[6] = [call |-> "asyncio.sleep", ctx |-> << 4 >>]
  /\ result = [kind |-> "Json", attempt |-> 3]

\* the success path of ask_about_posts
AskSucceeded ==
  /\ ReturnedOf({"ask_about_posts"}) /\ Made("answer_question")

\* the lower-cased whitespace tokens of a text
LowerTokens(toks) == {[toks[k] EXCEPT !.upper = FALSE] : k \in 1..Len(toks)}

\* fetched post k has text and shares a token with the question
Related(k) ==
  /\ ~Fetched[k].text.null
  /\ LowerTokens(Fetched[k].text.toks) \cap LowerTokens(req.text) # {}

\* C26: on the success path of ask_about_posts, related_posts lists the ids
\* of the fetched posts (all of them, not only the 20 sent to the model)
\* whose lower-cased whitespace tokens share a token with those of the
\* question, in fetch order, cut to the first 5; a post without text is
\* never listed.
C26_RelatedPosts ==
  AskSucceeded =>
    LET rel == {k \in 1..Len(Fetched) : Related(k)}
        n   == Len(result.related_posts)
        \* the position in Fetched of the i-th related post
        pos(i) == CHOOSE k \in rel : Cardinality({j \in rel : j < k}) = i - 1
    IN  /\ n = Min(Cardinality(rel), 5)
        /\ \A i \in 1..n : result.related_posts[i] = Fetched[pos(i)].id
        /\ \A i \in 1..n : \A k \in 1..Len(Fetched) :
             Fetched[k].id = result.related_posts[i] => ~Fetched[k].text.null

C26_Witness ==
  /\ AskSucceeded
  /\ Len(Fetched) > 20
  /\ Len(result.related_posts) = 5
  /\ result.related_posts[5] = Fetched[Len(Fetched)].id
  /\ \E k \in 1..Len(Fetched) : Fetched[k].text.null

\* a finished summarise_folder whose main_topics are those of the local
\* heuristic over the fetched posts
HeuristicUsed ==
  \/ LocalPathTaken
  \/ /\ ReturnedOf({"summarise_folder"}) /\ req.include_ai_summary
     /\ Made("health_check") /\ req.env.probe # "ok"

\* the places (post, token) where word w occurs in the posts f after
\* lower-casing and stripping
Occurrences(f, w) ==
  { pt \in (1..Len(f)) \X (1..4) :
      /\ ~f[pt[1]].text.null
      /\ pt[2] <= Len(f[pt[1]].text.toks)
      /\ f[pt[1]].text.toks[pt[2]].base = w }

Earlier(p, q) == p[1] < q[1] \/ (p[1] = q[1] /\ p[2] < q[2])

\* the words that qualify: at least 4 characters, no stop word
Qualifying(f) ==
  { w \in BaseWords :
      BaseLen[w] >= 4 /\ w \notin common_words /\ Occurrences(f, w) # {} }

\* C27: the local heuristic returns at most 5 words, each of at least 4
\* characters after lower-casing and stripping and none a stop word, the
\* most frequent first and words of equal frequency in order of first
\* occurrence; posts without text add nothing, and without a qualifying
\* word the list is empty.
C27_SimpleTopics ==
  HeuristicUsed =>
    LET f     == Fetched
        t     == result.main_topics
        qual  == Qualifying(f)
        occ   == [w \in qual |-> Occurrences(f, w)]
        first == [w \in qual |->
                    CHOOSE p \in occ[w] : \A q \in occ[w] : p = q \/ Earlier(p, q)]
        \* v comes before w: more frequent, or as frequent and met first
        ahead(v, w) ==
          \/ Cardinality(occ[v]) > Cardinality(occ[w])
          \/ /\ Cardinality(occ[v]) = Cardinality(occ[w])
             /\ Earlier(first[v], first[w])
    IN  /\ Len(t) = Min(5, Cardinality(qual))
        /\ \A i \in 1..Len(t) : t[i] \in qual
        /\ \A i \in 1..Len(t) : \A j \in (i + 1)..Len(t) : ahead(t[i], t[j])
        /\ \A w \in qual :
             (\A i \in 1..Len(t) : t[i] # w) => \A i \in 1..Len(t) : ahead(t[i], w)

C27_Witness ==
  /\ HeuristicUsed
  /\ Len(result.main_topics) = 5
  /\ LET f == Fetched
         n == [i \in 1..5 |-> Cardinality(Occurrences(f, result.main_topics[i]))]
     IN  /\ Cardinality(Qualifying(f)) > 5
         /\ \E k \in 1..Len(f) : f[k].text.null
         /\ \E i \in 1..4 : n[i] = n[i + 1]
         /\ n[1] > n[5]

C27_WitnessEmpty ==
  /\ HeuristicUsed /\ result.main_topics = <<>> /\ Qualifying(Fetched) = {}

OpenConnections == {k \in 1..Len(opened) : opened[k]}

\* C28 as stated: while read methods run as concurrent tasks on one
\* DatabaseManager (close() not yet called), at most one connection is ever
\* opened, and every open connection is the one the manager holds.
C28_SingleConnection ==
  (owner = TasksOwner /\ tasks[Closer].pc = "idle") =>
    /\ Len(opened) <= 1
    /\ \A k \in OpenConnections : conn = ConnId(k)

\* C29 as stated: after the session of a DatabaseManager was left, the
\* manager holds no connection, whatever read methods are called later.
C29_ClosedAfterExit ==
  (owner = "DatabaseManager" /\ phase = "exited") => conn = NoneVal

\* the store reads of each operation
ReadsOf(op) ==
  CASE op = "summarise_folder" ->
         {"get_folder", "get_posts_by_folder", "get_channels_in_folder"}
    [] op = "ask_about_posts" -> {"get_posts_by_folder"}
    [] OTHER -> {"search_posts", "get_folder", "get_channels_in_folder"}

\* the positions of the finished call's calls of the given names
CallsAt(names) == {k \in 1..Len(calls) : calls[k].call \in names}

\* C30: in summarise_folder, ask_about_posts and search_and_summarise a
\* completion call is made only after every store read of the operation and
\* after the one probe of the operation, which reported the service alive;
\* an operation probes at most once, calls each completion method at most
\* once, and asks for the topics before the summary.
C30_CallOrder ==
  (req.op \in PipelineOps /\ status # "none") =>
    /\ Cardinality(CallsAt({"health_check"})) <= 1
    /\ \A name \in CompletionCalls : Cardinality(CallsAt({name})) <= 1
    /\ \A k \in CallsAt(CompletionCalls) :
         /\ Cardinality({j \in CallsAt({"health_check"}) : j < k}) = 1
         /\ req.env.probe = "ok"
         /\ \A r \in ReadsOf(req.op) : \E j \in CallsAt({r}) : j < k
         /\ \A j \in CallsAt(StoreReads) : j < k
    /\ \A k \in CallsAt({"generate_summary"}) :
         \E j \in CallsAt({"extract_topics"}) : j < k
    /\ CallsAt({"answer_question"}) # {} => req.op = "ask_about_posts"
    /\ CallsAt({"extract_topics", "generate_summary"}) # {} => req.op \in SummaryOps

C30_Witness ==
  /\ ReturnedOf({"search_and_summarise"})
  /\ Len(calls) = 6
  /\ calls[4].call = "health_check"
  /\ calls[5].call = "extract_topics"
  /\ calls[6].call = "generate_summary"
  /\ req.env.probe = "ok"
====
